---- MODULE Spec2Model ----
(***************************************************************************)
(* A model of the WAHA client generator (src/generator/generate.py): the   *)
(* naming utilities, the type resolver, the schema / endpoint / entity     *)
(* parsers and the generation orchestrator.                                *)
(*                                                                         *)
(* Representation.  Text that the code transforms (names, tags, paths,     *)
(* type hints) is a sequence of one-character strings.  Keys and values of *)
(* the fixed OpenAPI vocabulary ("type", "string", "200", ...) are TLA+    *)
(* strings.  A JSON object with fixed keys is a record whose domain is the *)
(* set of keys present; the keys "$ref", "x-waha-entity" and               *)
(* "application/json" are spelled ref, x_waha_entity and application_json. *)
(* A JSON object whose keys are free names and whose order the code        *)
(* iterates (schemas, properties, parameters, paths) is a sequence of      *)
(* entries [key, val] with distinct keys.  The JSON value true is the      *)
(* record [json_true |-> TRUE].  Python's None is <<>> and a present       *)
(* optional value v is <<v>>.  A call that may raise returns a record      *)
(* [err, val]: err = "" when it returned val, else the exception's name.   *)
(***************************************************************************)
EXTENDS Integers, Sequences, FiniteSets, TLC

VARIABLES
    pc,         \* position of the run in main() / generate()
    doc,        \* the document on disk at spec_path (unchanged by the program)
    spec,       \* self.spec
    models,     \* self.models
    enums,      \* self.enums
    entities,   \* self.entities
    endpoints,  \* self.endpoints: ordered tag -> list of EndpointInfo
    error,      \* name of the exception that aborted the run, "" if none
    writes,     \* the write_text calls of the current run, in order
    disk,       \* the output directory: set of [path, content]
    runs,       \* number of finished runs of main()
    first,      \* IR, writes and disk at the end of the first run
    tschema,    \* argument of the call under study: `schema` of _get_type_hint,
                \* `name` of sanitize_name
    treq,       \* argument `required` of that call
    tres        \* what that call returned or raised

vars == <<pc, doc, spec, models, enums, entities, endpoints, error, writes,
          disk, runs, first, tschema, treq, tres>>

(***************************************************************************)
(* Bounds of the model.                                                    *)
(***************************************************************************)
MaxMembers == 2     \* longest allOf / oneOf / anyOf list that is enumerated
MaxSchemas == 2     \* most named schemas in a document
MaxOps == 2         \* most (path, verb) operations in a document
MaxRuns == 2        \* runs of main() on the same document

(***************************************************************************)
(* Characters and Python string primitives.                                *)
(***************************************************************************)
UpperChars == <<"A","B","C","D","E","F","G","H","I","J","K","L","M",
                "N","O","P","Q","R","S","T","U","V","W","X","Y","Z">>
LowerChars == <<"a","b","c","d","e","f","g","h","i","j","k","l","m",
                "n","o","p","q","r","s","t","u","v","w","x","y","z">>
DigitChars == {"0","1","2","3","4","5","6","7","8","9"}

IsUpper(c) == \E i \in 1..26 : UpperChars[i] = c
IsLower(c) == \E i \in 1..26 : LowerChars[i] = c
IsDigit(c) == c \in DigitChars
\* \w : letters, digits and the underscore
IsWord(c) == IsUpper(c) \/ IsLower(c) \/ IsDigit(c) \/ c = "_"
\* \s : whitespace
IsSpace(c) == c = " "

\* str.lower() on one character
LowerChar(c) == IF IsUpper(c) THEN LowerChars[CHOOSE i \in 1..26 : UpperChars[i] = c] ELSE c
\* str.upper() on one character
UpperChar(c) == IF IsLower(c) THEN UpperChars[CHOOSE i \in 1..26 : LowerChars[i] = c] ELSE c

StrLower(s) == [i \in 1..Len(s) |-> LowerChar(s[i])]
StrUpper(s) == [i \in 1..Len(s) |-> UpperChar(s[i])]

RECURSIVE LStrip(_, _)
\* s without its leading characters that are in the set chars
LStrip(s, chars) ==
    IF s # <<>> /\ Head(s) \in chars THEN LStrip(Tail(s), chars) ELSE s

RECURSIVE RStrip(_, _)
\* s without its trailing characters that are in the set chars
RStrip(s, chars) ==
    IF s # <<>> /\ s[Len(s)] \in chars THEN RStrip(SubSeq(s, 1, Len(s) - 1), chars) ELSE s

\* str.strip(chars)
Strip(s, chars) == RStrip(LStrip(s, chars), chars)

RECURSIVE LowerRunEnd(_, _)
\* last index of the run of [a-z] that starts at i
LowerRunEnd(s, i) ==
    IF i + 1 <= Len(s) /\ IsLower(s[i + 1]) THEN LowerRunEnd(s, i + 1) ELSE i

RECURSIVE NonWordRunEnd(_, _)
\* last index of the run of [^\w] that starts at i
NonWordRunEnd(s, i) ==
    IF i + 1 <= Len(s) /\ ~IsWord(s[i + 1]) THEN NonWordRunEnd(s, i + 1) ELSE i

RECURSIVE Sub1From(_, _)
\* re.sub("(.)([A-Z][a-z]+)", r"\1_\2", s), scanning from index i
Sub1From(s, i) ==
    IF i > Len(s) THEN <<>>
    ELSE IF i + 2 <= Len(s) /\ IsUpper(s[i + 1]) /\ IsLower(s[i + 2])
         THEN LET e == LowerRunEnd(s, i + 2)
              IN  <<s[i], "_">> \o SubSeq(s, i + 1, e) \o Sub1From(s, e + 1)
         ELSE <<s[i]>> \o Sub1From(s, i + 1)

RECURSIVE Sub2From(_, _)
\* re.sub("([a-z0-9])([A-Z])", r"\1_\2", s), scanning from index i
Sub2From(s, i) ==
    IF i > Len(s) THEN <<>>
    ELSE IF i + 1 <= Len(s) /\ (IsLower(s[i]) \/ IsDigit(s[i])) /\ IsUpper(s[i + 1])
         THEN <<s[i], "_", s[i + 1]>> \o Sub2From(s, i + 2)
         ELSE <<s[i]>> \o Sub2From(s, i + 1)

RECURSIVE Sub3From(_, _)
\* re.sub(r"[^\w]+", "_", s), scanning from index i
Sub3From(s, i) ==
    IF i > Len(s) THEN <<>>
    ELSE IF ~IsWord(s[i])
         THEN <<"_">> \o Sub3From(s, NonWordRunEnd(s, i) + 1)
         ELSE <<s[i]>> \o Sub3From(s, i + 1)

\* snake_case(string)
snake_case(string) ==
    LET s1 == Sub1From(string, 1)
        s2 == Sub2From(s1, 1)
    IN  Strip(StrLower(Sub3From(s2, 1)), {"_"})

\* re.sub(r"[^\w\s-]", "", name): keep word characters, whitespace and hyphens
KeepSanitized(c) == IsWord(c) \/ IsSpace(c) \/ c = "-"

StrDefault == <<"d","e","f","a","u","l","t">>

\* sanitize_name(name)
sanitize_name(name) ==
    LET kept     == SelectSeq(name, KeepSanitized)
        stripped == Strip(kept, {" "})
    IN  snake_case(IF stripped = <<>> THEN StrDefault ELSE stripped)

(***************************************************************************)
(* Python values and calls.                                                *)
(***************************************************************************)
None == <<>>
Some(v) == <<v>>
EmptyDict == [k \in {} |-> TRUE]
JsonTrue == [json_true |-> TRUE]

\* a call that returned v
Ok(v) == [err |-> "", val |-> v]
\* a call that raised the exception e
Raise(e) == [err |-> e, val |-> <<>>]

\* the rest of a computation after a call that may raise: its exception
\* propagates, its value goes on to Rest
Bind(r, Rest(_)) == IF r.err # "" THEN r ELSE Rest(r.val)

\* isinstance(x, dict), for the JSON values of the model
IsDict(x) == "json_true" \notin DOMAIN x
\* d.get(key, default)
Get(d, key, default) == IF key \in DOMAIN d THEN d[key] ELSE default

\* the string literals of _get_type_hint
StrAny == <<"A","n","y">>
StrStr == <<"s","t","r">>
StrDatetime == <<"d","a","t","e","t","i","m","e">>
StrDate == <<"d","a","t","e">>
StrBytes == <<"b","y","t","e","s">>
StrInt == <<"i","n","t">>
StrFloat == <<"f","l","o","a","t">>
StrBool == <<"b","o","o","l">>
StrListOpen == <<"l","i","s","t","[">>
StrDictOpen == <<"d","i","c","t","[","s","t","r",","," ">>
StrClose == <<"]">>
StrDictAny == StrDictOpen \o StrAny \o StrClose
StrBar == <<" ","|"," ">>
StrOrNone == <<" ","|"," ","N","o","n","e">>

RECURSIVE Join(_, _)
\* sep.join(parts)
Join(sep, parts) ==
    IF parts = <<>> THEN <<>>
    ELSE IF Len(parts) = 1 THEN parts[1]
    ELSE parts[1] \o sep \o Join(sep, Tail(parts))

(***************************************************************************)
(* Type Resolver: WAHAGenerator._get_type_hint.                            *)
(***************************************************************************)
\* `schema.get("oneOf") or schema.get("anyOf", [])`: an empty list is falsy
UnionItems(schema) ==
    IF "oneOf" \in DOMAIN schema /\ schema.oneOf # <<>> THEN schema.oneOf
    ELSE Get(schema, "anyOf", <<>>)

\* the string branches of _get_type_hint (type == "string")
StringHint(schema) ==
    IF "enum" \in DOMAIN schema THEN StrStr
    ELSE IF Get(schema, "format", "") = "date-time" THEN StrDatetime
    ELSE IF Get(schema, "format", "") = "date" THEN StrDate
    ELSE IF Get(schema, "format", "") = "binary" THEN StrBytes
    ELSE StrStr

\* WithOptional with the test on `required` inverted
WithOptionalInverted(type_str, required) ==
    IF required THEN type_str \o StrOrNone ELSE type_str

\* the tail of _get_type_hint: `if not required: type_str = f"{type_str} | None"`
WithOptional(type_str, required) ==
    IF ~required THEN type_str \o StrOrNone ELSE type_str

RECURSIVE _get_type_hint(_, _)
RECURSIVE HintList(_)
\* [self._get_type_hint(item, True) for item in items]: the hints, or the
\* first exception
HintList(items) ==
    IF items = <<>> THEN Ok(<<>>)
    ELSE Bind(_get_type_hint(Head(items), TRUE),
              LAMBDA h : Bind(HintList(Tail(items)), LAMBDA rest : Ok(<<h>> \o rest)))

\* _get_type_hint(schema, required).  `"$ref" in schema` raises TypeError when
\* schema is not a container (JSON true).
_get_type_hint(schema, required) ==
    IF ~IsDict(schema) THEN Raise("TypeError")
    ELSE IF "ref" \in DOMAIN schema
    THEN Ok(WithOptional(schema.ref.last, required))
    ELSE IF "allOf" \in DOMAIN schema
    THEN IF schema.allOf # <<>>
         THEN _get_type_hint(schema.allOf[1], required)
         ELSE Ok(WithOptional(StrAny, required))
    ELSE IF "oneOf" \in DOMAIN schema \/ "anyOf" \in DOMAIN schema
    THEN Bind(HintList(UnionItems(schema)),
              LAMBDA types : Ok(WithOptional(Join(StrBar, types), required)))
    ELSE IF "type" \notin DOMAIN schema
    THEN Ok(WithOptional(StrAny, required))
    ELSE IF schema.type = "string"
    THEN Ok(WithOptional(StringHint(schema), required))
    ELSE IF schema.type = "integer"
    THEN Ok(WithOptional(StrInt, required))
    ELSE IF schema.type = "number"
    THEN Ok(WithOptional(StrFloat, required))
    ELSE IF schema.type = "boolean"
    THEN Ok(WithOptional(StrBool, required))
    ELSE IF schema.type = "array"
    THEN Bind(_get_type_hint(Get(schema, "items", EmptyDict), TRUE),
              LAMBDA item_type :
                  Ok(WithOptional(StrListOpen \o item_type \o StrClose, required)))
    ELSE IF schema.type = "object"
    THEN IF "additionalProperties" \in DOMAIN schema
         THEN Bind(_get_type_hint(schema.additionalProperties, TRUE),
                   LAMBDA value_type :
                       Ok(WithOptional(StrDictOpen \o value_type \o StrClose, required)))
         ELSE Ok(WithOptional(StrDictAny, required))
    ELSE Ok(WithOptional(StrAny, required))

(***************************************************************************)
(* Property Parsing: WAHAGenerator._parse_property.                        *)
(***************************************************************************)
\* ("from", "import", "class", "def", "return", "type")
PythonKeywords ==
    { <<"f","r","o","m">>, <<"i","m","p","o","r","t">>, <<"c","l","a","s","s">>,
      <<"d","e","f">>, <<"r","e","t","u","r","n">>, <<"t","y","p","e">> }

\* the PropertyInfo dataclass
PropertyInfo(name, python_name, type_hint, required, default, description, enum_values, is_body) ==
    [name |-> name, python_name |-> python_name, type_hint |-> type_hint,
     required |-> required, default |-> default, description |-> description,
     enum_values |-> enum_values, is_body |-> is_body]

\* d.get(key) for a key whose value, when present, is kept as Some(value)
GetOpt(d, key) == IF key \in DOMAIN d THEN Some(d[key]) ELSE None

\* the identifier of _parse_property: snake_case, then the keyword suffix
PropertyPythonName(name) ==
    LET python_name == snake_case(name)
    IN  IF python_name \in PythonKeywords THEN python_name \o <<"_">> ELSE python_name

\* _parse_property(name, schema, required)
_parse_property(name, schema, required) ==
    Bind(_get_type_hint(schema, required),
         LAMBDA type_hint :
             Ok(PropertyInfo(name, PropertyPythonName(name), type_hint, required,
                             GetOpt(schema, "default"),
                             Get(schema, "description", <<>>),
                             GetOpt(schema, "enum"), FALSE)))

(***************************************************************************)
(* Schema Parser: WAHAGenerator._parse_schemas.                            *)
(***************************************************************************)
Range(seq) == {seq[i] : i \in 1..Len(seq)}

\* the value stored under key in an ordered dict (a sequence of entries)
Lookup(entries, key) == (CHOOSE i \in 1..Len(entries) : entries[i].key = key)
HasKey(entries, key) == \E i \in 1..Len(entries) : entries[i].key = key
ValueOf(entries, key) == entries[Lookup(entries, key)].val

RECURSIVE ParseProperties(_, _)
\* `for prop_name, prop_schema in properties.items(): props.append(
\*      self._parse_property(prop_name, prop_schema, prop_name in required_fields))`
ParseProperties(properties, required_fields) ==
    IF properties = <<>> THEN Ok(<<>>)
    ELSE Bind(_parse_property(Head(properties).key, Head(properties).val,
                              Head(properties).key \in required_fields),
              LAMBDA p : Bind(ParseProperties(Tail(properties), required_fields),
                              LAMBDA rest : Ok(<<p>> \o rest)))

\* item["properties"].items() if "properties" in item, else nothing
MemberProperties(item) == Get(item, "properties", <<>>)

RECURSIVE MergeAllOf(_, _, _)
\* the allOf loop of _parse_schemas: each member's properties are parsed with
\* the required_fields known so far, then the member's `required` is added
MergeAllOf(items, props, required_fields) ==
    IF items = <<>> THEN Ok([props |-> props, required_fields |-> required_fields])
    ELSE Bind(ParseProperties(MemberProperties(Head(items)), required_fields),
              LAMBDA ps :
                  MergeAllOf(Tail(items), props \o ps,
                             required_fields
                                \cup Range(Get(Head(items), "required", <<>>))))

\* SchemaProperties with the schema's own properties put before the members'
SchemaPropertiesOwnFirst(schema) ==
    Bind(ParseProperties(Get(schema, "properties", <<>>),
                         Range(Get(schema, "required", <<>>))),
         LAMBDA own :
             Bind(MergeAllOf(Get(schema, "allOf", <<>>), own,
                             Range(Get(schema, "required", <<>>))),
                  LAMBDA merged : Ok(merged.props)))

\* the property list _parse_schemas builds for an object-shaped schema: the
\* allOf loop (no iteration without allOf), then the schema's own properties
SchemaProperties(schema) ==
    Bind(MergeAllOf(Get(schema, "allOf", <<>>), <<>>,
                    Range(Get(schema, "required", <<>>))),
         LAMBDA merged :
             Bind(ParseProperties(Get(schema, "properties", <<>>), merged.required_fields),
                  LAMBDA own : Ok(merged.props \o own)))

\* the ModelInfo dataclass
ModelInfo(name, python_name, properties, description) ==
    [name |-> name, python_name |-> python_name, properties |-> properties,
     description |-> description]

\* the EnumInfo dataclass
EnumInfo(name, python_name, values, description) ==
    [name |-> name, python_name |-> python_name, values |-> values,
     description |-> description]

\* [(snake_case(str(v)).upper(), v) for v in schema["enum"]]
EnumValues(enum) == [i \in 1..Len(enum) |-> <<StrUpper(snake_case(enum[i])), enum[i]>>]

\* `schema.get("type") == "object" or "properties" in schema or "allOf" in schema`
IsObjectShaped(schema) ==
    \/ Get(schema, "type", "") = "object"
    \/ "properties" \in DOMAIN schema
    \/ "allOf" \in DOMAIN schema

\* the outcome of a parser loop that stopped with what it had built
Stopped(r, built) == IF r.err # "" THEN [err |-> r.err, val |-> built] ELSE r

RECURSIVE ParseSchemasFrom(_, _, _)
\* the loop of _parse_schemas over schemas.items(), from the lists built so
\* far; an exception leaves the lists as they were when it was raised
ParseSchemasFrom(schemas, ms, es) ==
    IF schemas = <<>> THEN Ok([models |-> ms, enums |-> es])
    ELSE IF "enum" \in DOMAIN Head(schemas).val
    THEN ParseSchemasFrom(Tail(schemas), ms,
             Append(es, EnumInfo(Head(schemas).key, Head(schemas).key,
                                 EnumValues(Head(schemas).val.enum),
                                 Get(Head(schemas).val, "description", <<>>))))
    ELSE IF IsObjectShaped(Head(schemas).val)
    THEN Bind(Stopped(SchemaProperties(Head(schemas).val), [models |-> ms, enums |-> es]),
              LAMBDA props :
                  ParseSchemasFrom(Tail(schemas),
                      Append(ms, ModelInfo(Head(schemas).key, Head(schemas).key, props,
                                           Get(Head(schemas).val, "description", <<>>))),
                      es))
    ELSE ParseSchemasFrom(Tail(schemas), ms, es)

\* self.spec.get("components", {}).get("schemas", {})
SchemasOf(d) == Get(Get(d, "components", EmptyDict), "schemas", <<>>)

\* where parse() stands after a step that ended as r
AfterStep(r, next) == IF r.err = "" THEN next ELSE "failed"

\* the effect of _parse_schemas once its loop ended as r
SchemasParsed(r) ==
    /\ models' = r.val.models
    /\ enums' = r.val.enums
    /\ error' = r.err
    /\ pc' = AfterStep(r, "schemas_parsed")

\* _parse_schemas(), the first step of parse()
ParseSchemas ==
    /\ pc = "constructed"
    /\ SchemasParsed(ParseSchemasFrom(SchemasOf(spec), models, enums))
    /\ UNCHANGED <<doc, spec, entities, endpoints, writes, disk, runs, first,
                   tschema, treq, tres>>

(***************************************************************************)
(* Endpoint Parser: WAHAGenerator._parse_endpoints / _parse_endpoint.      *)
(***************************************************************************)
\* ["get", "post", "put", "patch", "delete"]
Methods == <<"get", "post", "put", "patch", "delete">>

\* the text of a method name, and method.upper()
MethodText ==
    [get |-> <<"g","e","t">>, post |-> <<"p","o","s","t">>, put |-> <<"p","u","t">>,
     patch |-> <<"p","a","t","c","h">>, delete |-> <<"d","e","l","e","t","e">>]

\* the EndpointInfo dataclass
EndpointInfo(name, python_name, method, path, summary, description, tag, parameters, body, response_type) ==
    [name |-> name, python_name |-> python_name, method |-> method, path |-> path,
     summary |-> summary, description |-> description, tag |-> tag,
     parameters |-> parameters, body |-> body, response_type |-> response_type]

RECURSIVE WalkKeys(_, _)
\* `for part in ...: param = param[part]` over the leading segments of a
\* reference, each a key of a JSON object with fixed keys
WalkKeys(node, parts) ==
    IF parts = <<>> THEN Ok(node)
    ELSE IF Head(parts) \in DOMAIN node THEN WalkKeys(node[Head(parts)], Tail(parts))
    ELSE Raise("KeyError")

\* the value stored under key in an ordered dict, KeyError when there is none
Subscript(entries, key) ==
    IF HasKey(entries, key) THEN Ok(ValueOf(entries, key)) ELSE Raise("KeyError")

\* ResolveParameterRef with the last segment ignored: the first entry of the
\* container is taken
ResolveParameterRefFirst(d, ref) ==
    Bind(WalkKeys(d, Tail(ref.path)),
         LAMBDA container : IF container = <<>> THEN Raise("KeyError")
                            ELSE Ok(Head(container).val))

\* the reference resolution of _parse_endpoint: the path is followed from the
\* document root, skipping the leading '#'
ResolveParameterRef(d, ref) ==
    Bind(WalkKeys(d, Tail(ref.path)), LAMBDA container : Subscript(container, ref.last))

\* ParameterRequired without the path override
ParameterRequiredDeclared(param) == Get(param, "required", FALSE)

\* `required = param.get("required", False)`, then the path override
ParameterRequired(param) ==
    IF Get(param, "in", "") = "path" THEN TRUE ELSE Get(param, "required", FALSE)

\* the PropertyInfo _parse_endpoint builds from a resolved parameter object
ParameterInfo(param) ==
    IF "name" \notin DOMAIN param THEN Raise("KeyError")
    ELSE Bind(_get_type_hint(Get(param, "schema", [type |-> "string"]),
                             ParameterRequired(param)),
              LAMBDA type_hint :
                  Ok(PropertyInfo(param.name, snake_case(param.name), type_hint,
                                  ParameterRequired(param),
                                  GetOpt(Get(param, "schema", [type |-> "string"]), "default"),
                                  Get(param, "description", <<>>),
                                  GetOpt(Get(param, "schema", [type |-> "string"]), "enum"),
                                  FALSE)))

\* one iteration of the parameter loop of _parse_endpoint
ParseParameter(d, param) ==
    IF "ref" \in DOMAIN param
    THEN Bind(ResolveParameterRef(d, param.ref), ParameterInfo)
    ELSE ParameterInfo(param)

RECURSIVE ParseParameters(_, _)
ParseParameters(d, params) ==
    IF params = <<>> THEN Ok(<<>>)
    ELSE Bind(ParseParameter(d, Head(params)),
              LAMBDA p : Bind(ParseParameters(d, Tail(params)),
                              LAMBDA rest : Ok(<<p>> \o rest)))

StrBody == <<"b","o","d","y">>

\* the JSON schema of a requestBody or response object
ContentSchema(node) == Get(node.content.application_json, "schema", EmptyDict)

\* `"application/json" in node.get("content", {})`
HasJsonContent(node) == "application_json" \in DOMAIN Get(node, "content", EmptyDict)

\* the request-body part of _parse_endpoint: None, or the body PropertyInfo
ParseBody(operation) ==
    IF "requestBody" \notin DOMAIN operation THEN Ok(None)
    ELSE IF ~HasJsonContent(operation.requestBody) THEN Ok(None)
    ELSE Bind(_get_type_hint(ContentSchema(operation.requestBody), TRUE),
              LAMBDA type_hint :
                  Ok(Some(PropertyInfo(StrBody, StrBody, type_hint,
                                       Get(operation.requestBody, "required", TRUE), None,
                                       Get(operation.requestBody, "description", <<>>),
                                       None, TRUE))))

\* ResponseStatuses with "201" tried before "200"
ResponseStatuses201First == <<"201", "200", "default">>

\* ["200", "201", "default"]
ResponseStatuses == <<"200", "201", "default">>

RECURSIVE ResponseTypeFrom(_, _)
\* the response loop of _parse_endpoint over the statuses still to try
ResponseTypeFrom(responses, statuses) ==
    IF statuses = <<>> THEN Ok(StrAny)
    ELSE IF Head(statuses) \in DOMAIN responses /\ HasJsonContent(responses[Head(statuses)])
    THEN _get_type_hint(ContentSchema(responses[Head(statuses)]), TRUE)
    ELSE ResponseTypeFrom(responses, Tail(statuses))

\* operation.get("operationId", f"{method}_{path}")
OperationId(path, method, operation) ==
    Get(operation, "operationId", MethodText[method] \o <<"_">> \o path)

\* _parse_endpoint(path, method, operation, tag); d is self.spec
_parse_endpoint(d, path, method, operation, tag) ==
    Bind(ParseParameters(d, Get(operation, "parameters", <<>>)),
         LAMBDA parameters :
    Bind(ParseBody(operation),
         LAMBDA body :
    Bind(ResponseTypeFrom(Get(operation, "responses", EmptyDict), ResponseStatuses),
         LAMBDA response_type :
             Ok(EndpointInfo(OperationId(path, method, operation),
                             snake_case(OperationId(path, method, operation)),
                             StrUpper(MethodText[method]), path,
                             Get(operation, "summary", <<>>),
                             Get(operation, "description", <<>>),
                             tag, parameters, body, response_type)))))

\* `tags = operation.get("tags", ["default"]); tag = sanitize_name(tags[0])`
OperationTag(operation) ==
    LET tags == Get(operation, "tags", <<StrDefault>>)
    IN  IF tags = <<>> THEN Raise("IndexError") ELSE Ok(sanitize_name(tags[1]))

\* `if tag not in self.endpoints: self.endpoints[tag] = []`
EnsureTag(eps, tag) ==
    IF HasKey(eps, tag) THEN eps ELSE Append(eps, [key |-> tag, val |-> <<>>])

\* `self.endpoints[tag].append(endpoint)`
AppendEndpoint(eps, tag, endpoint) ==
    [eps EXCEPT ![Lookup(eps, tag)].val = Append(@, endpoint)]

\* the (path, method, operation) triples in the order _parse_endpoints visits
\* them: paths in document order, methods in the order of Methods
RECURSIVE MethodOperations(_, _, _)
MethodOperations(path, path_item, methods) ==
    IF methods = <<>> THEN <<>>
    ELSE (IF Head(methods) \in DOMAIN path_item
          THEN << [path |-> path, method |-> Head(methods),
                   operation |-> path_item[Head(methods)]] >>
          ELSE <<>>)
         \o MethodOperations(path, path_item, Tail(methods))

RECURSIVE Operations(_)
Operations(paths) ==
    IF paths = <<>> THEN <<>>
    ELSE MethodOperations(Head(paths).key, Head(paths).val, Methods)
         \o Operations(Tail(paths))

RECURSIVE ParseEndpointsFrom(_, _, _)
\* the loop of _parse_endpoints from the mapping built so far; an exception
\* leaves the mapping as it was when it was raised: without the tag's group
\* when tags[0] raised, with it when _parse_endpoint raised
ParseEndpointsFrom(d, ops, eps) ==
    IF ops = <<>> THEN Ok(eps)
    ELSE Bind(Stopped(OperationTag(Head(ops).operation), eps),
              LAMBDA tag :
    Bind(Stopped(_parse_endpoint(d, Head(ops).path, Head(ops).method,
                                 Head(ops).operation, tag),
                 EnsureTag(eps, tag)),
         LAMBDA endpoint :
             ParseEndpointsFrom(d, Tail(ops),
                                AppendEndpoint(EnsureTag(eps, tag), tag, endpoint))))

\* the effect of _parse_endpoints once its loop ended as r
EndpointsParsed(r) ==
    /\ endpoints' = r.val
    /\ error' = r.err
    /\ pc' = AfterStep(r, "endpoints_parsed")

\* _parse_endpoints(), the second step of parse()
ParseEndpoints ==
    /\ pc = "schemas_parsed"
    /\ EndpointsParsed(ParseEndpointsFrom(spec, Operations(Get(spec, "paths", <<>>)),
                                          endpoints))
    /\ UNCHANGED <<doc, spec, models, enums, entities, writes, disk, runs, first,
                   tschema, treq, tres>>

(***************************************************************************)
(* Entity Parser: pascal_case and WAHAGenerator._parse_entities.           *)
(***************************************************************************)
\* [_\-\s]
IsSeparator(c) == c = "_" \/ c = "-" \/ IsSpace(c)

RECURSIVE SeparatorRunEnd(_, _)
SeparatorRunEnd(s, i) ==
    IF i + 1 <= Len(s) /\ IsSeparator(s[i + 1]) THEN SeparatorRunEnd(s, i + 1) ELSE i

RECURSIVE SplitFrom(_, _, _)
\* re.split(r"[_\-\s]+", s) from index i, word being the piece collected so far
SplitFrom(s, i, word) ==
    IF i > Len(s) THEN <<word>>
    ELSE IF IsSeparator(s[i])
         THEN <<word>> \o SplitFrom(s, SeparatorRunEnd(s, i) + 1, <<>>)
         ELSE SplitFrom(s, i + 1, Append(word, s[i]))

\* str.capitalize()
Capitalize(word) ==
    [i \in 1..Len(word) |-> IF i = 1 THEN UpperChar(word[i]) ELSE LowerChar(word[i])]

\* pascal_case(string)
pascal_case(string) ==
    LET words == SplitFrom(string, 1, <<>>)
    IN  Join(<<>>, [i \in 1..Len(words) |-> Capitalize(words[i])])

\* the EntityInfo dataclass
EntityInfo(name, schema_name, properties, description) ==
    [name |-> name, schema_name |-> schema_name, properties |-> properties,
     description |-> description]

\* schema.get("x-waha-entity")
EntityConfig(schema) == Get(schema, "x_waha_entity", EmptyDict)

RECURSIVE ParseEntitiesFrom(_, _)
\* the loop of _parse_entities over schemas.items(); `if not entity_config`
\* skips an absent marker and an empty payload, and `.get` on a payload that
\* is not an object raises AttributeError
ParseEntitiesFrom(schemas, ents) ==
    IF schemas = <<>> THEN Ok(ents)
    ELSE IF EntityConfig(Head(schemas).val) = EmptyDict
    THEN ParseEntitiesFrom(Tail(schemas), ents)
    ELSE IF ~IsDict(EntityConfig(Head(schemas).val))
    THEN Stopped(Raise("AttributeError"), ents)
    ELSE Bind(Stopped(ParseProperties(Get(Head(schemas).val, "properties", <<>>),
                                      Range(Get(Head(schemas).val, "required", <<>>))),
                      ents),
              LAMBDA properties :
                  ParseEntitiesFrom(Tail(schemas),
                      Append(ents,
                             EntityInfo(Get(EntityConfig(Head(schemas).val), "class_name",
                                            pascal_case(Head(schemas).key)),
                                        Head(schemas).key, properties,
                                        Get(Head(schemas).val, "description", <<>>)))))

\* the effect of _parse_entities once its loop ended as r
EntitiesParsed(r) ==
    /\ entities' = r.val
    /\ error' = r.err
    /\ pc' = AfterStep(r, "parsed")

\* _parse_entities(), the last step of parse()
ParseEntities ==
    /\ pc = "endpoints_parsed"
    /\ EntitiesParsed(ParseEntitiesFrom(SchemasOf(spec), entities))
    /\ UNCHANGED <<doc, spec, models, enums, endpoints, writes, disk, runs, first,
                   tschema, treq, tres>>

(***************************************************************************)
(* Generation Orchestrator: __init__, generate and the _generate_* steps.  *)
(* A rendered text is the pair of the template and the context it was      *)
(* rendered with; a path is the directory under src/waha and the file name.*)
(***************************************************************************)
StrPy == <<".","p","y">>
StrInitPy == <<"_","_","i","n","i","t","_","_",".","p","y">>

Render(template, context) == [template |-> template, context |-> context]
File(dir, filename, content) == [path |-> <<dir, filename>>, content |-> content]

\* Path.write_text(content): the file is created or replaced
WriteText(files, file) == {f \in files : f.path # file.path} \cup {file}

RECURSIVE WriteAll(_, _)
\* the files after the write_text calls of ws, in order
WriteAll(files, ws) ==
    IF ws = <<>> THEN files ELSE WriteAll(WriteText(files, Head(ws)), Tail(ws))

\* the keys of an ordered dict, in order: list(d.keys())
Keys(entries) == [i \in 1..Len(entries) |-> entries[i].key]

\* the write_text calls of _generate_client
ClientFiles ==
    << File("", <<"c","l","i","e","n","t",".","p","y">>,
            Render("client.py.jinja", [endpoints |-> endpoints, models |-> models])),
       File("", <<"t","y","p","e","s",".","p","y">>, Render("types.py.jinja", EmptyDict)),
       File("", <<"e","r","r","o","r","s",".","p","y">>, Render("errors.py.jinja", EmptyDict)) >>

\* the write_text calls of _generate_models
ModelFiles ==
    [i \in 1..Len(models) |->
        File("models", snake_case(models[i].name) \o StrPy,
             Render("model.py.jinja",
                    [model |-> models[i], all_models |-> models, enums |-> enums]))]
    \o [i \in 1..Len(enums) |->
        File("models", snake_case(enums[i].name) \o StrPy,
             Render("enum.py.jinja", [enum |-> enums[i]]))]
    \o << File("models", StrInitPy,
               Render("models_init.py.jinja", [models |-> models, enums |-> enums])) >>

\* the write_text calls of _generate_api
ApiFiles ==
    [i \in 1..Len(endpoints) |->
        File("api", endpoints[i].key \o StrPy,
             Render("api_module.py.jinja",
                    [tag |-> endpoints[i].key, endpoints |-> endpoints[i].val,
                     models |-> models, enums |-> enums]))]
    \o << File("api", StrInitPy, Render("api_init.py.jinja", [tags |-> Keys(endpoints)])) >>

\* {e.schema_name: e.name for e in self.entities}: a later entity replaces an
\* earlier one of the same schema name
SchemaToEntity ==
    {[schema_name |-> entities[i].schema_name, name |-> entities[i].name] :
        i \in {j \in 1..Len(entities) :
                 \A k \in (j + 1)..Len(entities) :
                    entities[k].schema_name # entities[j].schema_name}}

\* the write_text call of _generate_wrapper
WrapperFiles ==
    << File("", <<"w","r","a","p","p","e","r",".","p","y">>,
            Render("wrapper.py.jinja",
                   [tags |-> Keys(endpoints), endpoints_by_tag |-> endpoints,
                    entities |-> entities, schema_to_entity |-> SchemaToEntity])) >>

\* the write_text calls of _generate_cli
CliFiles ==
    << File("_cli", StrInitPy, Render("cli_main.py.jinja", [tags |-> Keys(endpoints)])) >>
    \o [i \in 1..Len(endpoints) |->
        File("_cli", endpoints[i].key \o StrPy,
             Render("cli_module.py.jinja",
                    [tag |-> endpoints[i].key, endpoints |-> endpoints[i].val]))]

\* the write_text call of _generate_cli_entry
CliEntryFiles ==
    << File("", <<"c","l","i",".","p","y">>, Render("cli entry text", EmptyDict)) >>

\* the write_text call of _generate_package_init
PackageInitFiles ==
    << File("", StrInitPy,
            Render("package_init.py.jinja",
                   [tags |-> Keys(endpoints), models |-> models, enums |-> enums,
                    entities |-> entities])) >>

\* one _generate_* step of generate(): it writes its files and leaves the
\* parsed data alone
GenerateStep(from, to, files) ==
    /\ pc = from
    /\ writes' = writes \o files
    /\ disk' = WriteAll(disk, files)
    /\ pc' = to
    /\ UNCHANGED <<doc, spec, models, enums, entities, endpoints, error, runs, first,
                   tschema, treq, tres>>

GenerateClient == GenerateStep("parsed", "client", ClientFiles)
GenerateModels == GenerateStep("client", "models", ModelFiles)
GenerateApi == GenerateStep("models", "api", ApiFiles)
GenerateWrapper == GenerateStep("api", "wrapper", WrapperFiles)
GenerateCli == GenerateStep("wrapper", "cli", CliFiles)
GenerateCliEntry == GenerateStep("cli", "cli_entry", CliEntryFiles)
GeneratePackageInit == GenerateStep("cli_entry", "done", PackageInitFiles)

\* the parsed data the generator owns
IR == [endpoints |-> endpoints, models |-> models, enums |-> enums, entities |-> entities]

\* Construct with the lists of the previous run kept
ConstructKeepingLists ==
    /\ pc = "start"
    /\ runs < MaxRuns
    /\ spec' = doc
    /\ error' = ""
    /\ writes' = <<>>
    /\ pc' = "constructed"
    /\ UNCHANGED <<doc, models, enums, entities, endpoints, disk, runs, first,
                   tschema, treq, tres>>

\* main() up to WAHAGenerator.__init__: the document is loaded and the parsed
\* data starts empty
Construct ==
    /\ pc = "start"
    /\ runs < MaxRuns
    /\ spec' = doc
    /\ endpoints' = <<>>
    /\ models' = <<>>
    /\ enums' = <<>>
    /\ entities' = <<>>
    /\ error' = ""
    /\ writes' = <<>>
    /\ pc' = "constructed"
    /\ UNCHANGED <<doc, disk, runs, first, tschema, treq, tres>>

\* main() returns, or the exception of a failed step ends the process; the
\* output directory stays as the run left it
Exit ==
    /\ pc \in {"done", "failed"}
    /\ runs' = runs + 1
    /\ first' = IF runs = 0
                THEN Some([ir |-> IR, writes |-> writes, disk |-> disk, error |-> error])
                ELSE first
    /\ pc' = "start"
    /\ UNCHANGED <<doc, spec, models, enums, entities, endpoints, error, writes, disk,
                   tschema, treq, tres>>

(***************************************************************************)
(* Schema nodes given to the Type Resolver.                                *)
(***************************************************************************)
\* all sequences over S of length at most n
SeqsUpTo(S, n) == UNION {[1..k -> S] : k \in 0..n}

\* the reference "#/components/schemas/<name>", as its leading segments and
\* its last segment
SchemaRef(name) == [ref |-> [path |-> <<"#", "components", "schemas">>, last |-> name]]

NameFoo == <<"F","o","o">>
NameBar == <<"B","a","r">>

LeafNodes ==
    { SchemaRef(NameFoo),
      EmptyDict,
      [type |-> "string"],
      [type |-> "string", enum |-> << <<"a">>, <<"b">> >>],
      [type |-> "string", enum |-> << <<"a">> >>, format |-> "date"],
      [type |-> "string", format |-> "date-time"],
      [type |-> "string", format |-> "date"],
      [type |-> "string", format |-> "binary"],
      [type |-> "string", format |-> "uuid"],
      [type |-> "integer"],
      [type |-> "number"],
      [type |-> "boolean"],
      [type |-> "array"],
      [type |-> "object"],
      [type |-> "null"],
      [format |-> "date"] }

\* members of the enumerated composition lists
MemberNodes ==
    { SchemaRef(NameFoo), SchemaRef(NameBar), [type |-> "string"], EmptyDict,
      [type |-> "array", items |-> [type |-> "integer"]],
      [type |-> "object", additionalProperties |-> JsonTrue],
      [oneOf |-> << SchemaRef(NameFoo), [type |-> "string"] >>],
      [allOf |-> << [type |-> "array", items |-> SchemaRef(NameBar)], [type |-> "integer"] >>],
      [oneOf |-> <<>>] }

MemberLists == SeqsUpTo(MemberNodes, MaxMembers)

ContainerNodes ==
    {[type |-> "array", items |-> m] : m \in LeafNodes \cup MemberNodes}
    \cup {[type |-> "object", additionalProperties |-> m] :
            m \in LeafNodes \cup MemberNodes \cup {JsonTrue}}

CompositionNodes ==
    {[allOf |-> l] : l \in MemberLists}
    \cup {[oneOf |-> l] : l \in MemberLists}
    \cup {[anyOf |-> l] : l \in MemberLists}
    \cup {[oneOf |-> <<>>, anyOf |-> l] : l \in MemberLists}
    \cup {[allOf |-> l, type |-> "string"] : l \in MemberLists}
    \cup {[ref |-> SchemaRef(NameFoo).ref, allOf |-> l] : l \in MemberLists}

SchemaNodes == LeafNodes \cup ContainerNodes \cup CompositionNodes

(***************************************************************************)
(* SpecTypes: one call of _get_type_hint on a schema node.                 *)
(***************************************************************************)
NoRun ==
    /\ doc = EmptyDict /\ spec = EmptyDict
    /\ models = <<>> /\ enums = <<>> /\ entities = <<>> /\ endpoints = <<>>
    /\ error = "" /\ writes = <<>> /\ disk = {} /\ runs = 0 /\ first = None

runVars == <<doc, spec, models, enums, entities, endpoints, error, writes,
             disk, runs, first>>

TypesInit ==
    /\ pc = "types"
    /\ tschema \in SchemaNodes
    /\ treq \in BOOLEAN
    /\ tres = None
    /\ NoRun

Resolve ==
    /\ pc = "types"
    /\ tres' = _get_type_hint(tschema, treq)
    /\ pc' = "resolved"
    /\ UNCHANGED <<tschema, treq>>
    /\ UNCHANGED runVars

TypesNext == Resolve

SpecTypes == TypesInit /\ [][TypesNext]_vars

(***************************************************************************)
(* SpecNames: one call of sanitize_name on a name.                         *)
(***************************************************************************)
MaxLen == 3         \* longest name that is enumerated

\* a lower-case letter, an upper-case letter, a digit, the underscore, the
\* hyphen, the space and a character outside all of these classes
NameChars == {"a", "B", "1", "_", "-", " ", "!"}

NamesInit ==
    /\ pc = "names"
    /\ tschema \in SeqsUpTo(NameChars, MaxLen)
    /\ treq = TRUE
    /\ tres = None
    /\ NoRun

Sanitize ==
    /\ pc = "names"
    /\ tres' = Some(sanitize_name(tschema))
    /\ pc' = "sanitized"
    /\ UNCHANGED <<tschema, treq>>
    /\ UNCHANGED runVars

NamesNext == Sanitize

SpecNames == NamesInit /\ [][NamesNext]_vars

(***************************************************************************)
(* Documents.                                                              *)
(***************************************************************************)
DigitText == <<"1","2","3","4","5","6","7","8","9">>

Entry(key, val) == [key |-> key, val |-> val]

NameId == <<"i","d">>
NameChatId == <<"c","h","a","t","I","d">>
NameFrom == <<"f","r","o","m">>
NameType == <<"T","y","p","e">>
NameSession == <<"s","e","s","s","i","o","n">>
NameLimit == <<"l","i","m","i","t">>
NameSortBy == <<"s","o","r","t","B","y">>
NameUnderscore == <<"_">>

\* the i-th schema name of a generated document: "S1", "S2", ...
SchemaName(i) == <<"S", DigitText[i]>>

\* schemas without composition
SimpleSchemas ==
    { [type |-> "string", enum |-> << <<"W","O","R","K">>, <<"s","c","a","n","-","q","r">> >>],
      [type |-> "object",
       properties |-> << Entry(NameId, [type |-> "string"]) >>,
       required |-> << NameId >>],
      [properties |-> << Entry(NameType, [type |-> "integer", default |-> <<"1">>]),
                         Entry(NameFrom, SchemaRef(NameFoo)),
                         Entry(NameId, [type |-> "array", items |-> [type |-> "string"]]) >>,
       required |-> << NameFrom >>],
      [type |-> "string"],
      [type |-> "object",
       properties |-> << Entry(NameId, [type |-> "object", additionalProperties |-> JsonTrue]) >>],
      [type |-> "object"] }

\* members of the allOf lists of the composed schemas
AllOfMembers ==
    { SchemaRef(NameFoo),
      [properties |-> << Entry(NameId, [type |-> "string"]) >>,
       required |-> << NameId >>],
      [type |-> "object",
       properties |-> << Entry(NameId, [type |-> "integer"]),
                         Entry(NameChatId, [type |-> "string", description |-> <<"c">>]) >>,
       required |-> << NameChatId, NameFrom >>],
      [properties |-> << Entry(NameChatId, SchemaRef(NameBar)) >>] }

OwnProperties ==
    { << Entry(NameFrom, SchemaRef(NameFoo)) >>,
      << Entry(NameId, [type |-> "string"]), Entry(NameFrom, [type |-> "integer"]) >> }

OwnRequired == { << NameId, NameFrom >> }

\* schemas with allOf, with and without own properties and own required
ComposedSchemas ==
    LET lists == SeqsUpTo(AllOfMembers, MaxMembers)
    IN  {[allOf |-> l] : l \in lists}
        \cup {[allOf |-> l, properties |-> ps] : l \in lists, ps \in OwnProperties}
        \cup {[allOf |-> l, required |-> r] : l \in lists, r \in OwnRequired}
        \cup {[allOf |-> l, properties |-> ps, required |-> r] :
                l \in lists, ps \in OwnProperties, r \in OwnRequired}

\* the schemas named by position
NamedSchemas(list) == [i \in 1..Len(list) |-> Entry(SchemaName(i), list[i])]

SchemaDocument(list) == [components |-> [schemas |-> NamedSchemas(list)]]

\* documents for the Schema Parser: simple schemas, then at most one composed
\* schema
SchemaDocs ==
    {SchemaDocument(l) : l \in SeqsUpTo(SimpleSchemas, MaxSchemas)}
    \cup {SchemaDocument(Append(l, c)) :
            l \in SeqsUpTo(SimpleSchemas, MaxSchemas - 1), c \in ComposedSchemas}

\* components.parameters of the endpoint documents
SharedParameters ==
    << Entry(<<"S","e","s","s","i","o","n","P">>,
             [name |-> NameSession, in |-> "path", required |-> FALSE,
              description |-> <<"s">>]),
       Entry(<<"L","i","m","i","t","P">>,
             [name |-> NameLimit, in |-> "query",
              schema |-> [type |-> "integer", default |-> <<"1","0">>]]),
       Entry(<<"A","l","i","a","s","P">>,
             [ref |-> [path |-> <<"#", "components", "parameters">>,
                       last |-> <<"L","i","m","i","t","P">>]]) >>

ParameterRef(name) == [ref |-> [path |-> <<"#", "components", "parameters">>, last |-> name]]

\* the parameter objects of the enumerated operations
ParameterObjects ==
    { [name |-> NameId, in |-> "path", required |-> FALSE, schema |-> [type |-> "integer"]],
      [name |-> NameSession, in |-> "path"],
      [name |-> NameLimit, in |-> "query", required |-> TRUE,
       schema |-> [type |-> "integer", default |-> <<"1","0">>]],
      [name |-> NameFrom, in |-> "query"],
      [name |-> NameSortBy, in |-> "header", required |-> FALSE,
       schema |-> [type |-> "string", enum |-> << <<"a">>, <<"b">> >>]],
      ParameterRef(<<"S","e","s","s","i","o","n","P">>),
      ParameterRef(<<"L","i","m","i","t","P">>),
      ParameterRef(<<"A","l","i","a","s","P">>) }

JsonContent(schema) == [content |-> [application_json |-> [schema |-> schema]]]
NoContent == [description |-> <<"o","k">>]

\* what a document may declare under one status key
ResponseOptions(status) ==
    CASE status = "200" -> {NoContent, JsonContent(SchemaRef(NameFoo))}
      [] status = "201" -> {NoContent, JsonContent(SchemaRef(NameBar))}
      [] status = "default" -> {NoContent, JsonContent([type |-> "string"])}
      [] OTHER -> {JsonContent([type |-> "integer"])}

ResponseMaps ==
    UNION { {r \in [D -> UNION {ResponseOptions(st) : st \in D}] :
                \A st \in D : r[st] \in ResponseOptions(st)} :
            D \in SUBSET {"200", "201", "default", "404"} }
    \cup { [st \in {"200", "201"} |->
              IF st = "200" THEN [content |-> [text_plain |-> [schema |-> [type |-> "string"]]]]
              ELSE JsonContent(SchemaRef(NameBar))],
           [st \in {"200", "201"} |->
              IF st = "200" THEN [content |-> [application_json |-> EmptyDict]]
              ELSE JsonContent(SchemaRef(NameBar))] }

TagSessions == <<"*"," ","S","e","s","s","i","o","n","s">>
TagSessionsPlain == <<"s","e","s","s","i","o","n","s">>
TagChats == <<"C","h","a","t","s">>
OpList == <<"l","i","s","t","A","l","l">>

\* operations that differ in their tags
TagOperations ==
    { [summary |-> <<"s">>],
      [tags |-> << TagSessions >>, operationId |-> OpList],
      [tags |-> << TagSessionsPlain, TagChats >>],
      [tags |-> << TagChats >>, description |-> <<"d">>],
      [tags |-> <<>>] }

RequestBodies ==
    { [content |-> [application_json |-> [schema |-> SchemaRef(NameFoo)]]],
      [content |-> [application_json |-> [schema |-> SchemaRef(NameFoo)]],
       required |-> FALSE, description |-> <<"b">>],
      [content |-> [application_json |-> EmptyDict], required |-> TRUE],
      [content |-> [text_plain |-> [schema |-> [type |-> "string"]]]],
      [required |-> TRUE] }

MaxParams == 2      \* longest parameter list that is enumerated

\* the enumerated operations
AllOperations ==
    TagOperations
    \cup { [tags |-> << <<"*">> >>] }
    \cup {[tags |-> << TagChats >>, parameters |-> ps] :
            ps \in SeqsUpTo(ParameterObjects, MaxParams)}
    \cup {[tags |-> << TagChats >>, responses |-> r] : r \in ResponseMaps}
    \cup {[requestBody |-> b] : b \in RequestBodies}

\* the path of the k-th path item
PathText(k) == <<"/","a","p","i","/","{","i","d","}","/","v">> \o <<DigitText[k]>>

\* operation 2k-1 is the `post` and operation 2k the `get` of path k
PathsOf(ops) ==
    [k \in 1..((Len(ops) + 1) \div 2) |->
        Entry(PathText(k),
              [m \in (IF 2 * k <= Len(ops) THEN {"post", "get"} ELSE {"post"}) |->
                  IF m = "post" THEN ops[2 * k - 1] ELSE ops[2 * k]])]

EndpointDocument(ops) ==
    [components |-> [parameters |-> SharedParameters], paths |-> PathsOf(ops)]

\* documents for the Endpoint Parser: operations that differ in their tags,
\* then at most one of the other operations
EndpointDocs ==
    {EndpointDocument(l) : l \in SeqsUpTo(TagOperations, MaxOps)}
    \cup {EndpointDocument(Append(l, o)) :
            l \in SeqsUpTo(TagOperations, MaxOps - 1), o \in AllOperations}

\* the named schemas of the documents of whole runs
RunSchemas ==
    { Entry(<<"C","h","a","t","I","d">>,
            [type |-> "object",
             properties |-> << Entry(NameId, [type |-> "string"]) >>,
             required |-> << NameId >>]),
      Entry(<<"C","h","a","t","I","D">>,
            [type |-> "string", enum |-> << <<"c",".","u","s">>, <<"g",".","u","s">> >>]),
      Entry(<<"S","e","s","s","i","o","n","_","I","n","f","o">>,
            [type |-> "object",
             properties |-> << Entry(NameFrom, [type |-> "string"]),
                               Entry(NameType, SchemaRef(NameFoo)) >>,
             required |-> << NameType >>,
             x_waha_entity |-> [class_name |-> <<"S","e","s","s","i","o","n">>]]),
      Entry(<<"g","r","o","u","p","-","i","n","f","o">>,
            [allOf |-> << [properties |-> << Entry(NameId, [type |-> "string"]) >>,
                           required |-> << NameId >>] >>,
             properties |-> << Entry(NameChatId, [type |-> "string"]) >>,
             x_waha_entity |-> [methods |-> <<"x">>]]),
      Entry(<<"M","e","t","a">>,
            [type |-> "object",
             properties |-> << Entry(NameId, [type |-> "object",
                                              additionalProperties |-> JsonTrue]) >>]),
      Entry(<<"B","l","a","n","k">>,
            [properties |-> << Entry(NameUnderscore, [type |-> "boolean"]) >>,
             x_waha_entity |-> EmptyDict]) }

\* the operations of the documents of whole runs
RunOperations ==
    { [tags |-> << TagSessions >>, operationId |-> OpList,
       parameters |-> << [name |-> NameFrom, in |-> "query"],
                         ParameterRef(<<"S","e","s","s","i","o","n","P">>) >>,
       responses |-> [st \in {"200"} |-> JsonContent(SchemaRef(NameFoo))]],
      [requestBody |-> [content |-> [application_json |-> [schema |-> SchemaRef(NameFoo)]],
                        required |-> FALSE]],
      [tags |-> << TagSessionsPlain >>,
       parameters |-> << [name |-> NameType, in |-> "path"] >>],
      [tags |-> << TagChats >>,
       parameters |-> << ParameterRef(<<"G","o","n","e">>) >>],
      [tags |-> <<>>] }

DistinctKeys(entries) ==
    \A i, j \in 1..Len(entries) : entries[i].key = entries[j].key => i = j

RunDocument(schemas, ops) ==
    [components |-> [schemas |-> schemas, parameters |-> SharedParameters],
     paths |-> PathsOf(ops)]

\* documents for whole runs: schemas only, operations only, one of each
RunDocs ==
    {RunDocument(l, <<>>) : l \in {x \in SeqsUpTo(RunSchemas, MaxSchemas) : DistinctKeys(x)}}
    \cup {RunDocument(<<>>, o) : o \in SeqsUpTo(RunOperations, MaxOps)}
    \cup {RunDocument(<<e>>, <<o>>) : e \in RunSchemas, o \in RunOperations}

(***************************************************************************)
(* Spec: runs of main() on a document.                                     *)
(***************************************************************************)
NoCall == tschema = EmptyDict /\ treq = TRUE /\ tres = None

Init ==
    /\ pc = "start"
    /\ doc \in RunDocs
    /\ spec = EmptyDict
    /\ models = <<>> /\ enums = <<>> /\ entities = <<>> /\ endpoints = <<>>
    /\ error = "" /\ writes = <<>> /\ disk = {} /\ runs = 0 /\ first = None
    /\ NoCall

Next ==
    \/ Construct
    \/ ParseSchemas
    \/ ParseEndpoints
    \/ ParseEntities
    \/ GenerateClient
    \/ GenerateModels
    \/ GenerateApi
    \/ GenerateWrapper
    \/ GenerateCli
    \/ GenerateCliEntry
    \/ GeneratePackageInit
    \/ Exit

Spec == Init /\ [][Next]_vars

(***************************************************************************)
(* SpecSchemas: _parse_schemas on a freshly constructed generator.         *)
(***************************************************************************)
Constructed(d) ==
    /\ doc = d /\ spec = d
    /\ models = <<>> /\ enums = <<>> /\ entities = <<>> /\ endpoints = <<>>
    /\ error = "" /\ writes = <<>> /\ disk = {} /\ runs = 0 /\ first = None
    /\ NoCall

SchemasInit == pc = "constructed" /\ \E d \in SchemaDocs : Constructed(d)

SchemasNext == ParseSchemas

SpecSchemas == SchemasInit /\ [][SchemasNext]_vars

(***************************************************************************)
(* SpecEndpoints: _parse_endpoints on a document without schemas.          *)
(***************************************************************************)
EndpointsInit == pc = "schemas_parsed" /\ \E d \in EndpointDocs : Constructed(d)

EndpointsNext == ParseEndpoints

SpecEndpoints == EndpointsInit /\ [][EndpointsNext]_vars

(***************************************************************************)
(* Claims about the Type Resolver (checked under SpecTypes).               *)
(***************************************************************************)
RECURSIVE CountFrom(_, _, _)
\* number of positions i..Len(s) at which pat occurs in s
CountFrom(s, pat, i) ==
    IF i + Len(pat) - 1 > Len(s) THEN 0
    ELSE (IF SubSeq(s, i, i + Len(pat) - 1) = pat THEN 1 ELSE 0) + CountFrom(s, pat, i + 1)

EndsWith(s, pat) ==
    Len(s) >= Len(pat) /\ SubSeq(s, Len(s) - Len(pat) + 1, Len(s)) = pat

StrFoo == NameFoo

\* C6: _get_type_hint never fails: for every schema node it returns a
\* descriptor (it neither raises nor returns the empty string), a node with
\* no recognised keyword or an unknown `type` resolving to Any.
C6_NeverFails ==
    pc = "resolved" =>
        /\ tres.err = ""
        /\ tres.val # <<>>
        /\ (tschema \in {EmptyDict, [type |-> "null"], [format |-> "date"]} /\ treq
                => tres.val = StrAny)

\* C7: the optional marker " | None" occurs in the returned hint exactly once,
\* at its very end, when required is false, and nowhere when required is true;
\* so element, value and member types never carry it.
C7_OptionalOutermostOnly ==
    (pc = "resolved" /\ tres.err = "") =>
        /\ CountFrom(tres.val, StrOrNone, 1) = (IF treq THEN 0 ELSE 1)
        /\ ~treq => EndsWith(tres.val, StrOrNone)
        /\ (tschema = SchemaRef(NameFoo) /\ ~treq) => tres.val = StrFoo \o StrOrNone
        /\ (tschema = [type |-> "array", items |-> [type |-> "string"]] /\ treq)
                => tres.val = StrListOpen \o StrStr \o StrClose

\* C7 witness: an optional array reached through allOf resolved to
\* "list[Bar] | None"
C7_Witness ==
    /\ pc = "resolved"
    /\ ~treq
    /\ tschema = [allOf |-> << [allOf |-> << [type |-> "array", items |-> SchemaRef(NameBar)],
                                            [type |-> "integer"] >>] >>]
    /\ tres = Ok(StrListOpen \o NameBar \o StrClose \o StrOrNone)

(***************************************************************************)
(* Claims about the Schema Parser (checked under SpecSchemas).             *)
(***************************************************************************)
\* the schema a Model was parsed from
SchemaOfModel(m) == ValueOf(SchemasOf(doc), m.name)

\* the union of the schema's own `required` and every allOf member's
RequiredUnion(schema) ==
    Range(Get(schema, "required", <<>>))
    \cup UNION {Range(Get(schema.allOf[k], "required", <<>>)) :
                  k \in 1..Len(Get(schema, "allOf", <<>>))}

\* C1: every property of every Model is required exactly when its name is in
\* the union of the schema's own and all allOf members' `required` lists, and
\* its type is optional exactly when it is not required.
C1_RequiredIsUnion ==
    \A i \in 1..Len(models) :
        \A j \in 1..Len(models[i].properties) :
            LET p == models[i].properties[j]
            IN  /\ p.required = (p.name \in RequiredUnion(SchemaOfModel(models[i])))
                /\ p.required = ~EndsWith(p.type_hint, StrOrNone)

RECURSIVE MemberPropertyNames(_)
\* the property names of the allOf members, member by member
MemberPropertyNames(items) ==
    IF items = <<>> THEN <<>>
    ELSE Keys(Get(Head(items), "properties", <<>>)) \o MemberPropertyNames(Tail(items))

RECURSIVE PropertyCount(_)
PropertyCount(items) ==
    IF items = <<>> THEN 0
    ELSE Len(Get(Head(items), "properties", <<>>)) + PropertyCount(Tail(items))

PropertyNames(props) == [j \in 1..Len(props) |-> props[j].name]

\* C2: the property list of every Model is the members' properties, member by
\* member in declaration order, followed by the schema's own properties; its
\* length is the sum of the counts, and without allOf it is the declaration
\* order of `properties`.
C2_PropertyOrder ==
    \A i \in 1..Len(models) :
        LET schema == SchemaOfModel(models[i])
            members == Get(schema, "allOf", <<>>)
            own == Get(schema, "properties", <<>>)
        IN  /\ PropertyNames(models[i].properties) = MemberPropertyNames(members) \o Keys(own)
            /\ Len(models[i].properties) = PropertyCount(members) + Len(own)
            /\ "allOf" \notin DOMAIN schema
                    => PropertyNames(models[i].properties) = Keys(own)

\* C2 witness: a Model merged from two members and own properties, property
\* `id` kept three times
C2_Witness ==
    /\ pc = "schemas_parsed"
    /\ \E i \in 1..Len(models) :
          /\ Len(Get(SchemaOfModel(models[i]), "allOf", <<>>)) = 2
          /\ PropertyNames(models[i].properties)
                = << NameId, NameId, NameChatId, NameId, NameFrom >>

(***************************************************************************)
(* Claims about the Endpoint Parser (checked under SpecEndpoints).         *)
(***************************************************************************)
\* every EndpointInfo of the mapping with the key it is stored under
StoredEndpoints ==
    UNION {{[key |-> endpoints[g].key, pos |-> k, endpoint |-> endpoints[g].val[k]] :
               k \in 1..Len(endpoints[g].val)} : g \in 1..Len(endpoints)}

\* the operations of the document, in parse order
DocOperations == Operations(Get(doc, "paths", <<>>))

\* the operation an EndpointInfo was parsed from
OperationOf(e) ==
    (CHOOSE o \in Range(DocOperations) :
        o.path = e.path /\ StrUpper(MethodText[o.method]) = e.method).operation

HasJson(responses, status) ==
    /\ status \in DOMAIN responses
    /\ "content" \in DOMAIN responses[status]
    /\ "application_json" \in DOMAIN responses[status].content

JsonSchema(responses, status) ==
    Get(responses[status].content.application_json, "schema", EmptyDict)

\* C3: the response type is that of the JSON schema under "200" if there is
\* one, else under "201", else under "default", resolved as required; with no
\* such schema it is Any.
C3_ResponsePriority ==
    \A s \in StoredEndpoints :
        LET responses == Get(OperationOf(s.endpoint), "responses", EmptyDict)
            type == s.endpoint.response_type
        IN  /\ HasJson(responses, "200")
                => type = _get_type_hint(JsonSchema(responses, "200"), TRUE).val
            /\ (~HasJson(responses, "200") /\ HasJson(responses, "201"))
                => type = _get_type_hint(JsonSchema(responses, "201"), TRUE).val
            /\ (~HasJson(responses, "200") /\ ~HasJson(responses, "201")
                    /\ HasJson(responses, "default"))
                => type = _get_type_hint(JsonSchema(responses, "default"), TRUE).val
            /\ (~HasJson(responses, "200") /\ ~HasJson(responses, "201")
                    /\ ~HasJson(responses, "default"))
                => type = StrAny

\* C3 witness: "200", "201" and "default" all carry a JSON schema and the
\* endpoint's response type is the "200" one
C3_Witness ==
    /\ pc = "endpoints_parsed"
    /\ \E s \in StoredEndpoints :
          LET responses == Get(OperationOf(s.endpoint), "responses", EmptyDict)
          IN  /\ HasJson(responses, "200") /\ HasJson(responses, "201")
              /\ HasJson(responses, "default")
              /\ s.endpoint.response_type = NameFoo

\* the parameter object behind the j-th declared parameter of an operation
ParameterObject(operation, j) ==
    LET param == operation.parameters[j]
    IN  IF "ref" \in DOMAIN param
        THEN ValueOf(doc.components.parameters, param.ref.last)
        ELSE param

\* C4: a parameter located in path is required whatever it declares; any other
\* parameter is required as declared, and not required when it declares nothing.
C4_PathParametersRequired ==
    \A s \in StoredEndpoints :
        \A j \in 1..Len(s.endpoint.parameters) :
            LET param == ParameterObject(OperationOf(s.endpoint), j)
                info == s.endpoint.parameters[j]
            IN  /\ Get(param, "in", "") = "path" => info.required
                /\ (Get(param, "in", "") # "path" /\ "required" \in DOMAIN param)
                        => info.required = param.required
                /\ (Get(param, "in", "") # "path" /\ "required" \notin DOMAIN param)
                        => ~info.required

\* C4 witness: a path parameter declared `required: false`, inline and behind
\* a reference, parsed as required
C4_Witness ==
    /\ pc = "endpoints_parsed"
    /\ \E s \in StoredEndpoints :
          LET operation == OperationOf(s.endpoint)
          IN  /\ Len(s.endpoint.parameters) = 2
              /\ "ref" \in DOMAIN operation.parameters[1]
              /\ "ref" \notin DOMAIN operation.parameters[2]
              /\ \A j \in 1..2 :
                    /\ Get(ParameterObject(operation, j), "in", "") = "path"
                    /\ Get(ParameterObject(operation, j), "required", TRUE) = FALSE
                    /\ s.endpoint.parameters[j].required

\* the tag an operation belongs to
ExpectedTag(operation) ==
    IF "tags" \in DOMAIN operation /\ operation.tags # <<>>
    THEN sanitize_name(operation.tags[1])
    ELSE StrDefault

\* C8: _parse_endpoints does not fail, and puts exactly one EndpointInfo for
\* every operation into the group of its tag (the sanitized first tag, or
\* "default" when the tags are absent or empty); groups are in order of first
\* appearance, endpoints in parse order, and each carries its group's key.
C8_GroupedByTag ==
    pc \in {"endpoints_parsed", "failed"} =>
        /\ error = ""
        /\ \A o \in Range(DocOperations) :
              Cardinality({s \in StoredEndpoints :
                              /\ s.endpoint.path = o.path
                              /\ s.endpoint.method = StrUpper(MethodText[o.method])
                              /\ s.key = ExpectedTag(o.operation)}) = 1
        /\ Cardinality(StoredEndpoints) = Len(DocOperations)
        /\ \A s \in StoredEndpoints : s.endpoint.tag = s.key
        /\ DistinctKeys(endpoints)

(***************************************************************************)
(* Claims about whole runs (checked under Spec).                           *)
(***************************************************************************)
\* every PropertyInfo of the parsed data
AllPropertyInfos ==
    UNION {Range(models[i].properties) : i \in 1..Len(models)}
    \cup UNION {Range(entities[i].properties) : i \in 1..Len(entities)}
    \cup UNION {Range(s.endpoint.parameters) \cup Range(s.endpoint.body) :
                  s \in StoredEndpoints}

\* C5: no PropertyInfo of the parsed data has an empty identifier or one that
\* is a reserved word.
C5_IdentifiersUsable ==
    \A p \in AllPropertyInfos : p.python_name # <<>> /\ p.python_name \notin PythonKeywords

\* C9: a second run on the unchanged document ends with the parsed data, the
\* sequence of writes and the output directory of the first run, and hands
\* the first run's parsed data to rendering.
C9_SecondRunIdentical ==
    runs >= 1 =>
        /\ pc \in {"parsed", "done"} => IR = first[1].ir
        /\ pc \in {"done", "failed"} =>
              /\ IR = first[1].ir
              /\ error = first[1].error
              /\ writes = first[1].writes
              /\ disk = first[1].disk

\* C9 witness: a second run that parsed a model, an entity and an endpoint
\* has written all its files
C9_Witness ==
    /\ runs = 1
    /\ pc = "done"
    /\ models # <<>> /\ entities # <<>> /\ endpoints # <<>>
    /\ Len(writes) >= 10

\* C10: within one run no two write_text calls go to the same path.
C10_OneWriterPerPath ==
    \A i, j \in 1..Len(writes) : writes[i].path = writes[j].path => i = j

(***************************************************************************)
(* Claims about references (checked under Spec).                           *)
(***************************************************************************)
RECURSIVE RefsIn(_)
\* the references written anywhere in a schema node: the node itself, the
\* members of its compositions, its items, its map values, its properties
RefsIn(node) ==
    (IF "ref" \in DOMAIN node THEN {node.ref} ELSE {})
    \cup UNION { UNION {RefsIn(node[k][i]) : i \in 1..Len(node[k])} :
                 k \in DOMAIN node \cap {"allOf", "oneOf", "anyOf"} }
    \cup UNION { RefsIn(node[k]) : k \in DOMAIN node \cap {"items", "additionalProperties"} }
    \cup UNION { RefsIn(node.properties[i].val) :
                 i \in 1..Len(Get(node, "properties", <<>>)) }

\* the references of the JSON schema of a request body or response object
ContentRefs(node) == IF HasJsonContent(node) THEN RefsIn(ContentSchema(node)) ELSE {}

\* the references of a parameter object: itself when it is one, else those of
\* its schema
ParameterRefs(param) ==
    IF "ref" \in DOMAIN param THEN {param.ref} ELSE RefsIn(Get(param, "schema", EmptyDict))

\* the references of an operation: parameters, request body, responses
OperationRefs(operation) ==
    UNION {ParameterRefs(p) : p \in Range(Get(operation, "parameters", <<>>))}
    \cup (IF "requestBody" \in DOMAIN operation THEN ContentRefs(operation.requestBody) ELSE {})
    \cup UNION {ContentRefs(operation.responses[st]) :
                st \in DOMAIN Get(operation, "responses", EmptyDict)}

\* every reference of a document
DocumentRefs(d) ==
    UNION {RefsIn(e.val) : e \in Range(SchemasOf(d))}
    \cup UNION {ParameterRefs(e.val) :
                e \in Range(Get(Get(d, "components", EmptyDict), "parameters", <<>>))}
    \cup UNION { UNION {OperationRefs(e.val[m]) : m \in DOMAIN e.val} :
                 e \in Range(Get(d, "paths", <<>>)) }

\* the reference names a node of the document
RefResolves(d, ref) == ResolveParameterRef(d, ref).err = ""

\* the references of the document that point to a missing node
DanglingRefs(d) == {ref \in DocumentRefs(d) : ~RefResolves(d, ref)}

\* C11: a document with a $ref to a missing node never gets past parse():
\* the run fails, and it has written no file when it does.
C11_MissingRefIsFatal ==
    DanglingRefs(doc) # {} =>
        /\ pc \notin {"parsed", "client", "models", "api", "wrapper", "cli",
                      "cli_entry", "done"}
        /\ pc = "failed" => (error # "" /\ writes = <<>>)

(***************************************************************************)
(* Claims about the Entity Parser (checked under Spec).                    *)
(***************************************************************************)
\* the named schemas of d that carry the x-waha-entity marker, in order
MarkedSchemas(d) == SelectSeq(SchemasOf(d), LAMBDA e : "x_waha_entity" \in DOMAIN e.val)

\* the class name the marker of a schema entry asks for
MarkedClassName(e) ==
    IF IsDict(e.val.x_waha_entity) /\ "class_name" \in DOMAIN e.val.x_waha_entity
    THEN e.val.x_waha_entity.class_name
    ELSE pascal_case(e.key)

\* the entity is the one of the marked schema entry e: its names, and its
\* direct properties in order with required taken from the own list
EntityOf(entity, e) ==
    /\ entity.schema_name = e.key
    /\ entity.name = MarkedClassName(e)
    /\ Len(entity.properties) = Len(Get(e.val, "properties", <<>>))
    /\ \A j \in 1..Len(entity.properties) :
          /\ entity.properties[j].name = e.val.properties[j].key
          /\ entity.properties[j].required
               = (e.val.properties[j].key \in Range(Get(e.val, "required", <<>>)))

\* C12: after a successful parse() there is exactly one EntityInfo per schema
\* that carries the marker, in schema order, whatever the marker's payload,
\* built from the schema's direct properties and own required list.
C12_OneEntityPerMarker ==
    pc = "parsed" =>
        /\ Len(entities) = Len(MarkedSchemas(doc))
        /\ \A i \in 1..Len(entities) : EntityOf(entities[i], MarkedSchemas(doc)[i])

(***************************************************************************)
(* Claims about the Naming Utility (checked under SpecNames).              *)
(***************************************************************************)
\* C13: sanitize_name returns a non-empty string of lower-case letters,
\* digits and underscores for every name, and "default" when nothing is left
\* of the name after the removal of the other characters and the trim.
C13_SanitizedNeverEmpty ==
    pc = "sanitized" =>
        /\ tres[1] # <<>>
        /\ \A c \in Range(tres[1]) : IsLower(c) \/ IsDigit(c) \/ c = "_"
        /\ Strip(SelectSeq(tschema, KeepSanitized), {" "}) = <<>> => tres[1] = StrDefault

(***************************************************************************)
(* Claims about parameter references (checked under SpecEndpoints).        *)
(***************************************************************************)
\* the parameter list of an operation with every reference replaced by the
\* object it names
InlinedParameters(operation) ==
    [j \in 1..Len(operation.parameters) |-> ParameterObject(operation, j)]

\* some declared parameter of the operation is a reference to a reference
RefToRef(operation) ==
    \E j \in 1..Len(Get(operation, "parameters", <<>>)) :
        /\ "ref" \in DOMAIN operation.parameters[j]
        /\ "ref" \in DOMAIN ParameterObject(operation, j)

\* C14: the parameter list of every stored endpoint is the one parsed from the
\* operation with its references written inline, position by position; and a
\* reference to a reference is not followed a second time: the parse fails.
C14_RefEqualsInline ==
    /\ \A s \in StoredEndpoints :
          LET operation == OperationOf(s.endpoint)
          IN  "parameters" \in DOMAIN operation =>
                  /\ ~RefToRef(operation)
                  /\ s.endpoint.parameters
                       = ParseParameters(EmptyDict, InlinedParameters(operation)).val
    /\ (\E o \in Range(DocOperations) : RefToRef(o.operation)) => pc # "endpoints_parsed"

\* C14 witness: an endpoint whose first parameter is a reference to the shared
\* `limit` parameter and whose PropertyInfo is the one of that object
C14_Witness ==
    /\ pc = "endpoints_parsed"
    /\ \E s \in StoredEndpoints :
          LET operation == OperationOf(s.endpoint)
          IN  /\ Len(s.endpoint.parameters) = 2
              /\ "ref" \in DOMAIN operation.parameters[1]
              /\ "ref" \notin DOMAIN operation.parameters[2]
              /\ s.endpoint.parameters[1].name = NameLimit
              /\ s.endpoint.parameters[1].python_name = NameLimit
              /\ s.endpoint.parameters[1].type_hint = StrInt \o StrOrNone
              /\ ~s.endpoint.parameters[1].required
              /\ s.endpoint.parameters[1].default = Some(<<"1","0">>)

(***************************************************************************)
(* Claims about the parsed data as a whole (checked under Spec).           *)
(***************************************************************************)
\* C15: every PropertyInfo of the parsed data (model and entity properties,
\* endpoint parameters, request bodies) has a type that ends with the
\* optional marker exactly when it is not required.
C15_TypeAgreesWithRequired ==
    \A p \in AllPropertyInfos : EndsWith(p.type_hint, StrOrNone) <=> ~p.required

====
